---- MODULE Spec2Model ----
(***************************************************************************)
(* Model of the geant4-api simulation application.                         *)
(*                                                                         *)
(*   Spec     a multi-threaded run: the master's and the workers'          *)
(*            RunAction / EventAction / SteppingAction callbacks and the   *)
(*            Analysis output singleton (src/app/core/geant4_app/src).     *)
(*   SpecAPI  one RunAction object whose public methods are called in any  *)
(*            order.                                                       *)
(*   SpecSD   the two hit collectors, SensitiveDetector and B2a TrackerSD. *)
(*   SpecGeo  DetectorConstruction: sensitive-volume discovery.            *)
(*   SpecB2a  B2a::DetectorConstruction: the parametric chamber geometry.  *)
(*   SpecLive Spec with the fairness of the run manager's scheduling.      *)
(*   SpecMT   Spec with a budget of MaxMTEvents events.                    *)
(*   SpecStats  the end-of-run statistics of RunAction::EndOfRunAction     *)
(*            over a range of merged sums.                                 *)
(*   SpecEvt  one event loop: the sensitive detector's callbacks           *)
(*            interleaved with EventAction and SteppingAction.             *)
(*   SpecB2aRun  exampleB2a from geometry construction to the end of a     *)
(*            run.                                                         *)
(*                                                                         *)
(* Energies are integer multiples of one energy quantum; for such values   *)
(* (far below 2^53) the double additions and multiplications of the code   *)
(* are exact.  Quotients and the square root are kept exact as fractions.  *)
(*                                                                         *)
(* RunAction registers fEdep and fEdep2 with the thread's                  *)
(* G4AccumulableManager; the model gives Reset() and Merge() the meaning   *)
(* the Geant4 library gives them for registered accumulables: Reset() sets *)
(* the calling thread's accumulables to 0, Merge() called on a worker adds *)
(* that worker's accumulables to the master's, Merge() called on the       *)
(* master does nothing.                                                    *)
(***************************************************************************)
EXTENDS Integers, Sequences, FiniteSets, TLC

\* ------------------------------------------------------------------ bounds
MaxWorkers == 2      \* worker threads of the run manager
MaxEvents  == 2      \* events of one process, over all its runs
MaxSteps   == 2      \* steps of one event
MaxDep     == 1      \* largest energy deposit of one step (quanta)
MaxCalls   == 4      \* calls of the RunAction interface (SpecAPI)
MaxSDSteps == 2      \* steps delivered to a sensitive detector per event
MaxSDEvents == 3     \* events of a sensitive detector (SpecSD, SpecEvt)
MaxMTEvents == 4     \* events of one process in SpecMT
MaxStatSum == 6      \* largest sum fEdep at run end in SpecStats
MaxStatSum2 == 12    \* largest sum fEdep2 at run end in SpecStats
MaxEvtDep  == 2      \* largest energy deposit of one step in SpecEvt (quanta)
NumLV      == 3      \* logical volumes of a GDML file (SpecGeo)
MaxPlacements == 2   \* placements in the world volume of a GDML file
MaxConstructs == 2   \* Construct() calls on one DetectorConstruction
MaxChambers == 5     \* largest chamber count of the B2a geometry (SpecB2a)

Master   == 0
Workers  == 1..MaxWorkers
Threads  == 0..MaxWorkers
StepDeposits == 0..MaxDep
EventIDs == 0..(MaxEvents - 1)

NoStats == [none |-> TRUE]
NoEdep  == -1

VARIABLES
    \* ---- run manager (Geant4 kernel, as seen by the callbacks)
    nThreads,        \* number of worker threads (-t option)
    runID,           \* number of runs started
    runActive,       \* master is between BeginOfRunAction and EndOfRunAction
    nToProcess,      \* events of the current run
    eventsLeft,      \* events the process may still start
    nextEvent,       \* next event id the master hands to a worker
    masterNofEvents, \* G4Run::GetNumberOfEvent() of the master's run
    wpc,             \* worker position: idle, begun, inEvent, ended
    wNofEvents,      \* G4Run::GetNumberOfEvent() of each worker's run
    wEvent,          \* event id a worker is processing
    wSteps,          \* steps taken in the event being processed
    \* ---- RunAction (one per thread), EventAction (one per worker)
    fEdep,           \* RunAction::fEdep
    fEdep2,          \* RunAction::fEdep2
    evtEdep,         \* EventAction::fEdep
    stats,           \* edep, mean, rms computed by EndOfRunAction
    printed,         \* the statistics the master printed
    \* ---- Analysis singleton and the per-thread G4AnalysisManager
    fInstance,       \* Analysis::fInstance != nullptr
    fBooked,         \* Analysis::fBooked
    amOpen,          \* thread's manager has histograms, ntuple and open file
    amH1,            \* accepted fills of histogram 0
    amRows,          \* accepted ntuple rows <<eventID, edep>>
    dropped,         \* fills and rows rejected by the thread's manager
    saveCalls,       \* Analysis::Save() calls of the current run
    written,         \* files written and closed in the current run
    \* ---- history of the current run
    evLog,           \* deposit passed to AddEdep for each event id
    evOwner,         \* worker that processed each event id
    merged,          \* threads whose Merge() ran
    prevTotal,       \* the master's fEdep when the current run began
    \* ---- caller of the RunAction interface (SpecAPI)
    apiState,        \* Idle, Accumulating, Merged (spec.md 4.5)
    apiCount,        \* AddEdep calls since the last BeginOfRunAction
    apiCalls,        \* calls made so far
    lastCall,        \* the last call made
    \* ---- hit collectors (SpecSD)
    sdApp,           \* the application: "geant4_app" or "B2a"
    sdEventID,       \* id of the current event
    sdInEvent,       \* between Initialize and EndOfEvent
    sdSteps,         \* steps delivered in the current event
    fHitsCollection, \* hits of SensitiveDetector / TrackerSD, in order
    fHCID,           \* SensitiveDetector::fHCID
    sdStep,          \* the last step delivered and what ProcessHits returned
    sdSummary,       \* number of hits and total Edep EndOfEvent printed
    \* ---- DetectorConstruction of geant4_app (SpecGeo)
    fGdmlFile,       \* the GDML volume tree, or NoFile
    gConstructs,     \* Construct() calls made
    fParser,         \* 0 (nullptr) or the number of the parser object
    fWorldLogical,   \* the world logical volume
    fSensitiveVolumes, \* names of the sensitive volumes, in order
    fLogicalVolumes, \* name -> logical volume
    detectors,       \* SensitiveDetector objects ConstructSDandField made
    sdDone,          \* ConstructSDandField has run since Construct
    \* ---- B2a::DetectorConstruction (SpecB2a)
    fNbOfChambers,   \* number of chambers
    chamberSpacing,  \* distance of two chambers along z (mm)
    chamberWidth,    \* width of a chamber along z (mm)
    fCheckOverlaps,  \* overlap checking of the placements
    fTargetMaterial, \* material of the target
    fChamberMaterial, \* material of the chambers
    b2aState,        \* PreInit, Constructed, Aborted, Crashed
    b2aException,    \* code of the G4Exception raised, or "none"
    placements,      \* physical volumes placed, in order
    lvMaterial,      \* material of each logical volume created
    fLogicTarget,    \* logical volume of the target, 0 = nullptr
    fLogicChamber,   \* logical volume of a chamber, 0 = nullptr
    fStepLimit,      \* max allowed step of fStepLimit, 0 = nullptr
    lvSD,            \* logical volumes the TrackerSD is attached to
    b2aSDDone,       \* B2a ConstructSDandField has run
    \* ---- one step of the event loop of one worker (SpecEvt)
    evtStep,         \* the last step: its deposit, and whether in a sensitive volume
    evtOutside,      \* deposits of the current event outside sensitive volumes
    evIn,            \* per event id: no step, its one step, or many steps
    evHits           \* per event id: hits in the collection at the end of the event

runVars == <<nThreads, runID, runActive, nToProcess, eventsLeft, nextEvent,
             masterNofEvents, wpc, wNofEvents, wEvent, wSteps,
             fEdep, fEdep2, evtEdep, stats, printed,
             fInstance, fBooked, amOpen, amH1, amRows, dropped,
             saveCalls, written, evLog, evOwner, merged, prevTotal>>

apiVars == <<apiState, apiCount, apiCalls, lastCall>>

sdVars == <<sdApp, sdEventID, sdInEvent, sdSteps, fHitsCollection, fHCID,
           sdStep, sdSummary>>

geoVars == <<fGdmlFile, gConstructs, fParser, fWorldLogical,
            fSensitiveVolumes, fLogicalVolumes, detectors, sdDone>>

b2aVars == <<fNbOfChambers, chamberSpacing, chamberWidth, fCheckOverlaps,
            fTargetMaterial, fChamberMaterial, b2aState, b2aException,
            placements, lvMaterial, fLogicTarget, fLogicChamber, fStepLimit,
            lvSD, b2aSDDone>>

evtVars == <<evtStep, evtOutside, evIn, evHits>>

vars == <<runVars, apiVars, sdVars, geoVars, b2aVars, evtVars>>

\* --------------------------------------------------------------- fractions
RECURSIVE GCD(_, _)
GCD(a, b) == IF b = 0 THEN a ELSE GCD(b, a % b)

Abs(x) == IF x < 0 THEN -x ELSE x

\* the quotient num/den (den > 0) in lowest terms
Frac(num, den) ==
    LET g == GCD(Abs(num), den)
    IN  IF num = 0 THEN <<0, 1>> ELSE <<num \div g, den \div g>>

\* ------------------------------------------------- RunAction, run statistics
DeriveUnbiased(edep, edep2, nofEvents) ==
    LET radNum == nofEvents * edep2 - edep * edep
    IN  [total |-> edep,
         mean  |-> Frac(edep, nofEvents),
         rmsSq |-> IF radNum > 0 /\ nofEvents > 1
                   THEN Frac(radNum, nofEvents * nofEvents * (nofEvents - 1))
                   ELSE <<0, 1>>]

\* EndOfRunAction lines 50-63: edep, edep/nofEvents and (rms/nofEvents)^2,
\* where rms = sqrt(edep2 - edep*edep/nofEvents) if that is > 0, else 0
Derive(edep, edep2, nofEvents) ==
    LET radNum == nofEvents * edep2 - edep * edep
    IN  [total |-> edep,
         mean  |-> Frac(edep, nofEvents),
         rmsSq |-> IF radNum > 0
                   THEN Frac(radNum, nofEvents * nofEvents * nofEvents)
                   ELSE <<0, 1>>]

AddEdepToSumOnly(acc, edep) ==
    [edep |-> acc.edep + edep, edep2 |-> acc.edep2]

AddEdepToNoSquare(acc, edep) ==
    [edep |-> acc.edep + edep, edep2 |-> acc.edep2 + edep]

\* RunAction::AddEdep applied to the pair of sums acc
AddEdepTo(acc, edep) ==
    [edep |-> acc.edep + edep, edep2 |-> acc.edep2 + edep * edep]

AddEdepGuarded(t, edep) ==
    LET acc == AddEdepTo([edep |-> fEdep[t], edep2 |-> fEdep2[t]], edep)
    IN  IF apiState = "Merged"
        THEN UNCHANGED <<fEdep, fEdep2>>
        ELSE /\ fEdep'  = [fEdep  EXCEPT ![t] = acc.edep]
             /\ fEdep2' = [fEdep2 EXCEPT ![t] = acc.edep2]

\* RunAction::AddEdep on thread t
AddEdep(t, edep) ==
    LET acc == AddEdepTo([edep |-> fEdep[t], edep2 |-> fEdep2[t]], edep)
    IN  /\ fEdep'  = [fEdep  EXCEPT ![t] = acc.edep]
        /\ fEdep2' = [fEdep2 EXCEPT ![t] = acc.edep2]

ResetAccNone(f, t) == f

\* G4AccumulableManager::Reset() on thread t, for the accumulable f
ResetAcc(f, t) == [f EXCEPT ![t] = 0]

MergeAccTwice(f, t) ==
    IF t = Master THEN f ELSE [f EXCEPT ![Master] = @ + 2 * f[t]]

MergeAccOverwrite(f, t) ==
    IF t = Master THEN f ELSE [f EXCEPT ![Master] = f[t]]

\* G4AccumulableManager::Merge() on thread t, for the accumulable f
MergeAcc(f, t) == IF t = Master THEN f ELSE [f EXCEPT ![Master] = @ + f[t]]

\* ------------------------------------------------------------------ Analysis
\* Analysis::Book() on thread t
Book(t) ==
    IF fBooked
    THEN UNCHANGED <<fBooked, amOpen, amH1, amRows>>
    ELSE /\ fBooked' = TRUE
         /\ amOpen'  = [amOpen EXCEPT ![t] = TRUE]
         /\ amH1'    = [amH1   EXCEPT ![t] = <<>>]
         /\ amRows'  = [amRows EXCEPT ![t] = <<>>]

\* Analysis::Save() on thread t: Write, CloseFile, fBooked = false
Save(t) ==
    /\ fBooked'   = FALSE
    /\ amOpen'    = [amOpen EXCEPT ![t] = FALSE]
    /\ saveCalls' = [saveCalls EXCEPT ![t] = @ + 1]
    /\ written'   = IF amOpen[t] THEN written + 1 ELSE written

\* -------------------------------------------------------------------- state
\* the state of a process that may start maxEvents events
InitRunVarsFor(maxEvents) ==
    /\ runID = 0
    /\ runActive = FALSE
    /\ nToProcess = 0
    /\ eventsLeft = maxEvents
    /\ nextEvent = 0
    /\ masterNofEvents = 0
    /\ wpc = [w \in Workers |-> "idle"]
    /\ wNofEvents = [w \in Workers |-> 0]
    /\ wEvent = [w \in Workers |-> 0]
    /\ wSteps = [w \in Workers |-> 0]
    /\ fEdep = [t \in Threads |-> 0]
    /\ fEdep2 = [t \in Threads |-> 0]
    /\ evtEdep = [w \in Workers |-> 0]
    /\ stats = [t \in Threads |-> NoStats]
    /\ printed = NoStats
    /\ fInstance = FALSE
    /\ fBooked = FALSE
    /\ amOpen = [t \in Threads |-> FALSE]
    /\ amH1 = [t \in Threads |-> <<>>]
    /\ amRows = [t \in Threads |-> <<>>]
    /\ dropped = [t \in Threads |-> 0]
    /\ saveCalls = [t \in Threads |-> 0]
    /\ written = 0
    /\ evLog = [e \in 0..(maxEvents - 1) |-> NoEdep]
    /\ evOwner = [e \in 0..(maxEvents - 1) |-> 0]
    /\ merged = {}
    /\ prevTotal = 0

InitRunVars == InitRunVarsFor(MaxEvents)

InitApiVars ==
    /\ apiState = "Idle"
    /\ apiCount = 0
    /\ apiCalls = 0
    /\ lastCall = <<"none", 0>>

InitSdVars ==
    /\ sdEventID = 0
    /\ sdInEvent = FALSE
    /\ sdSteps = 0
    /\ fHitsCollection = <<>>
    /\ fHCID = -1
    /\ sdStep = [edep |-> 0, ret |-> FALSE]
    /\ sdSummary = [nHits |-> 0, totalEdep |-> 0]

NoFile == [none |-> TRUE]
Null   == <<0, 0>>
VolNames == {"A", "B", "Phantom"}

InitGeoVars ==
    /\ gConstructs = 0
    /\ fParser = 0
    /\ fWorldLogical = Null
    /\ fSensitiveVolumes = <<>>
    /\ fLogicalVolumes = [n \in VolNames |-> Null]
    /\ detectors = <<>>
    /\ sdDone = FALSE

\* sizes of B2a::DetectorConstruction::DefineVolumes, in mm
ShippedSpacing == 800
ShippedWidth   == 200
targetLength   == 50
Spacings == {100, ShippedWidth, ShippedSpacing}
Widths   == {ShippedWidth}

\* B2a::DetectorConstruction::DetectorConstruction and DefineMaterials
InitB2aVars ==
    /\ fCheckOverlaps = TRUE
    /\ fTargetMaterial = "G4_Pb"
    /\ fChamberMaterial = "G4_Xe"
    /\ b2aState = "PreInit"
    /\ b2aException = "none"
    /\ placements = <<>>
    /\ lvMaterial = <<>>
    /\ fLogicTarget = 0
    /\ fLogicChamber = 0
    /\ fStepLimit = 0
    /\ lvSD = {}
    /\ b2aSDDone = FALSE

ShippedB2a ==
    /\ fNbOfChambers = MaxChambers
    /\ chamberSpacing = ShippedSpacing
    /\ chamberWidth = ShippedWidth
    /\ InitB2aVars

\* no step has been taken
NoSteps(kind) == [kind |-> kind, edep |-> 0, sensitive |-> FALSE]

InitEvtVars ==
    /\ evtStep = [edep |-> 0, sensitive |-> FALSE]
    /\ evtOutside = 0
    /\ evIn = [e \in 0..(MaxSDEvents - 1) |-> NoSteps("idle")]
    /\ evHits = [e \in 0..(MaxSDEvents - 1) |-> 0]

InitRun ==
    /\ nThreads \in 1..MaxWorkers
    /\ InitRunVars
    /\ InitApiVars
    /\ sdApp = "geant4_app"
    /\ InitSdVars
    /\ fGdmlFile = NoFile
    /\ InitGeoVars
    /\ ShippedB2a
    /\ InitEvtVars

ActiveWorkers == 1..nThreads

\* RunAction::BeginOfRunAction on thread t
BeginOfRunAction(t) ==
    /\ fEdep'  = ResetAcc(fEdep, t)
    /\ fEdep2' = ResetAcc(fEdep2, t)
    /\ fInstance' = TRUE
    /\ Book(t)

\* BeamOn(n) on the master: run initialisation, then the master's
\* RunAction::BeginOfRunAction
MasterBeginOfRunAction(n) ==
    /\ ~runActive
    /\ runID' = runID + 1
    /\ runActive' = TRUE
    /\ nToProcess' = n
    /\ eventsLeft' = eventsLeft - n
    /\ nextEvent' = 0
    /\ masterNofEvents' = 0
    /\ wpc' = [w \in Workers |-> "idle"]
    /\ wNofEvents' = [w \in Workers |-> 0]
    /\ BeginOfRunAction(Master)
    /\ stats' = [t \in Threads |-> NoStats]
    /\ printed' = NoStats
    /\ saveCalls' = [t \in Threads |-> 0]
    /\ written' = 0
    /\ evLog' = [e \in DOMAIN evLog |-> NoEdep]
    /\ evOwner' = [e \in DOMAIN evOwner |-> 0]
    /\ merged' = {}
    /\ prevTotal' = fEdep[Master]
    /\ UNCHANGED <<nThreads, wEvent, wSteps, evtEdep, dropped>>

\* a worker's RunAction::BeginOfRunAction
WorkerBeginOfRunAction(w) ==
    /\ runActive
    /\ wpc[w] = "idle"
    /\ wpc' = [wpc EXCEPT ![w] = "begun"]
    /\ BeginOfRunAction(w)
    /\ UNCHANGED <<nThreads, runID, runActive, nToProcess, eventsLeft,
                   nextEvent, masterNofEvents, wNofEvents, wEvent, wSteps,
                   evtEdep, stats, printed, dropped, saveCalls, written,
                   evLog, evOwner, merged, prevTotal>>

BeginOfEventActionNoReset(w) ==
    /\ wpc[w] = "begun"
    /\ nextEvent < nToProcess
    /\ wpc' = [wpc EXCEPT ![w] = "inEvent"]
    /\ wEvent' = [wEvent EXCEPT ![w] = nextEvent]
    /\ nextEvent' = nextEvent + 1
    /\ UNCHANGED <<nThreads, runID, runActive, nToProcess, eventsLeft,
                   masterNofEvents, wNofEvents, wSteps, fEdep, fEdep2, stats,
                   printed, fInstance, fBooked, amOpen, amH1, amRows, dropped,
                   saveCalls, written, evLog, evOwner, merged, prevTotal,
                   evtEdep>>

BeginOfEventActionShared(w) ==
    /\ wpc[w] = "begun"
    /\ nextEvent < nToProcess
    /\ wpc' = [wpc EXCEPT ![w] = "inEvent"]
    /\ wEvent' = [wEvent EXCEPT ![w] = nextEvent]
    /\ nextEvent' = nextEvent + 1
    /\ evtEdep' = [v \in Workers |-> 0]
    /\ UNCHANGED <<nThreads, runID, runActive, nToProcess, eventsLeft,
                   masterNofEvents, wNofEvents, wSteps, fEdep, fEdep2, stats,
                   printed, fInstance, fBooked, amOpen, amH1, amRows, dropped,
                   saveCalls, written, evLog, evOwner, merged, prevTotal>>

\* EventAction::BeginOfEventAction on the worker that takes the next event
BeginOfEventAction(w) ==
    /\ wpc[w] = "begun"
    /\ nextEvent < nToProcess
    /\ wpc' = [wpc EXCEPT ![w] = "inEvent"]
    /\ wEvent' = [wEvent EXCEPT ![w] = nextEvent]
    /\ nextEvent' = nextEvent + 1
    /\ evtEdep' = [evtEdep EXCEPT ![w] = 0]
    /\ UNCHANGED <<nThreads, runID, runActive, nToProcess, eventsLeft,
                   masterNofEvents, wNofEvents, wSteps, fEdep, fEdep2, stats,
                   printed, fInstance, fBooked, amOpen, amH1, amRows, dropped,
                   saveCalls, written, evLog, evOwner, merged, prevTotal>>

UserSteppingActionOverwrite(w, edep) ==
    /\ wpc[w] = "inEvent"
    /\ wSteps[w] < MaxSteps
    /\ wSteps' = [wSteps EXCEPT ![w] = @ + 1]
    /\ evtEdep' = [evtEdep EXCEPT ![w] = edep]
    /\ UNCHANGED <<nThreads, runID, runActive, nToProcess, eventsLeft,
                   nextEvent, masterNofEvents, wpc, wNofEvents, wEvent,
                   fEdep, fEdep2, stats, printed, fInstance, fBooked, amOpen,
                   amH1, amRows, dropped, saveCalls, written, evLog, evOwner,
                   merged, prevTotal>>

\* SteppingAction::UserSteppingAction: EventAction::AddEdep(edep)
UserSteppingAction(w, edep) ==
    /\ wpc[w] = "inEvent"
    /\ wSteps[w] < MaxSteps
    /\ wSteps' = [wSteps EXCEPT ![w] = @ + 1]
    /\ evtEdep' = [evtEdep EXCEPT ![w] = @ + edep]
    /\ UNCHANGED <<nThreads, runID, runActive, nToProcess, eventsLeft,
                   nextEvent, masterNofEvents, wpc, wNofEvents, wEvent,
                   fEdep, fEdep2, stats, printed, fInstance, fBooked, amOpen,
                   amH1, amRows, dropped, saveCalls, written, evLog, evOwner,
                   merged, prevTotal>>

\* EventAction::EndOfEventAction, then G4Run::RecordEvent
EndOfEventAction(w) ==
    /\ wpc[w] = "inEvent"
    /\ AddEdep(w, evtEdep[w])
    /\ fInstance' = TRUE
    /\ IF amOpen[w]
       THEN /\ amH1' = [amH1 EXCEPT ![w] = Append(@, evtEdep[w])]
            /\ amRows' = [amRows EXCEPT
                             ![w] = Append(@, <<wEvent[w], evtEdep[w]>>)]
            /\ UNCHANGED dropped
       ELSE /\ dropped' = [dropped EXCEPT ![w] = @ + 1]
            /\ UNCHANGED <<amH1, amRows>>
    /\ wNofEvents' = [wNofEvents EXCEPT ![w] = @ + 1]
    /\ wSteps' = [wSteps EXCEPT ![w] = 0]
    /\ wpc' = [wpc EXCEPT ![w] = "begun"]
    /\ evLog' = [evLog EXCEPT ![wEvent[w]] = evtEdep[w]]
    /\ evOwner' = [evOwner EXCEPT ![wEvent[w]] = w]
    /\ UNCHANGED <<nThreads, runID, runActive, nToProcess, eventsLeft,
                   nextEvent, masterNofEvents, wEvent, evtEdep, stats,
                   printed, fBooked, amOpen, saveCalls, written, merged,
                   prevTotal>>

EndOfRunActionNoMerge(t, nofEvents) ==
    IF nofEvents = 0
    THEN UNCHANGED <<fEdep, fEdep2, stats, printed, fInstance, fBooked,
                     amOpen, saveCalls, written, merged>>
    ELSE /\ UNCHANGED <<fEdep, fEdep2>>
         /\ merged' = merged \cup {t}
         /\ stats'  = [stats EXCEPT
                          ![t] = Derive(fEdep[t], fEdep2[t], nofEvents)]
         /\ printed' = IF t = Master THEN stats'[t] ELSE printed
         /\ fInstance' = TRUE
         /\ Save(t)

\* RunAction::EndOfRunAction on thread t, whose run holds nofEvents events
EndOfRunAction(t, nofEvents) ==
    IF nofEvents = 0
    THEN UNCHANGED <<fEdep, fEdep2, stats, printed, fInstance, fBooked,
                     amOpen, saveCalls, written, merged>>
    ELSE /\ fEdep'  = MergeAcc(fEdep, t)
         /\ fEdep2' = MergeAcc(fEdep2, t)
         /\ merged' = merged \cup {t}
         /\ stats'  = [stats EXCEPT
                          ![t] = Derive(fEdep'[t], fEdep2'[t], nofEvents)]
         /\ printed' = IF t = Master THEN stats'[t] ELSE printed
         /\ fInstance' = TRUE
         /\ Save(t)

WorkerEndOfRunActionEarly(w) ==
    /\ wpc[w] = "begun"
    /\ wpc' = [wpc EXCEPT ![w] = "ended"]
    /\ masterNofEvents' = masterNofEvents + wNofEvents[w]
    /\ EndOfRunAction(w, wNofEvents[w])
    /\ UNCHANGED <<nThreads, runID, runActive, nToProcess, eventsLeft,
                   nextEvent, wNofEvents, wEvent, wSteps, evtEdep, amH1,
                   amRows, dropped, evLog, evOwner, prevTotal>>

\* a worker leaves the event loop: its run is merged into the master's run
\* (G4Run::Merge), then its RunAction::EndOfRunAction is called
WorkerEndOfRunAction(w) ==
    /\ wpc[w] = "begun"
    /\ nextEvent = nToProcess
    /\ wpc' = [wpc EXCEPT ![w] = "ended"]
    /\ masterNofEvents' = masterNofEvents + wNofEvents[w]
    /\ EndOfRunAction(w, wNofEvents[w])
    /\ UNCHANGED <<nThreads, runID, runActive, nToProcess, eventsLeft,
                   nextEvent, wNofEvents, wEvent, wSteps, evtEdep, amH1,
                   amRows, dropped, evLog, evOwner, prevTotal>>

MasterEndOfRunActionNoBarrier ==
    /\ runActive
    /\ runActive' = FALSE
    /\ EndOfRunAction(Master, masterNofEvents)
    /\ UNCHANGED <<nThreads, runID, nToProcess, eventsLeft, nextEvent,
                   masterNofEvents, wpc, wNofEvents, wEvent, wSteps, evtEdep,
                   amH1, amRows, dropped, evLog, evOwner, prevTotal>>

\* the master's RunAction::EndOfRunAction, after every worker has ended
MasterEndOfRunAction ==
    /\ runActive
    /\ \A w \in ActiveWorkers : wpc[w] = "ended"
    /\ runActive' = FALSE
    /\ EndOfRunAction(Master, masterNofEvents)
    /\ UNCHANGED <<nThreads, runID, nToProcess, eventsLeft, nextEvent,
                   masterNofEvents, wpc, wNofEvents, wEvent, wSteps, evtEdep,
                   amH1, amRows, dropped, evLog, evOwner, prevTotal>>

NextRun ==
    /\ \/ \E n \in 1..eventsLeft : MasterBeginOfRunAction(n)
       \/ \E w \in ActiveWorkers : WorkerBeginOfRunAction(w)
       \/ \E w \in ActiveWorkers : BeginOfEventAction(w)
       \/ \E w \in ActiveWorkers, e \in StepDeposits : UserSteppingAction(w, e)
       \/ \E w \in ActiveWorkers : EndOfEventAction(w)
       \/ \E w \in ActiveWorkers : WorkerEndOfRunAction(w)
       \/ MasterEndOfRunAction
    /\ UNCHANGED <<apiVars, sdVars, geoVars, b2aVars, evtVars>>

Spec == InitRun /\ [][NextRun]_vars

\* ----------------------------------------------------------------- SpecLive
\* The run of Spec with the scheduling of the run manager: a worker thread
\* that can take a step of its event loop (begin its run, take the next
\* event, end its event, leave the loop) eventually takes one, and the
\* master, once every worker has ended, ends the run.  The tracking of an
\* event ends after finitely many steps.
WorkerStep(w) ==
    /\ w \in ActiveWorkers
    /\ \/ WorkerBeginOfRunAction(w)
       \/ BeginOfEventAction(w)
       \/ EndOfEventAction(w)
       \/ WorkerEndOfRunAction(w)
    /\ UNCHANGED <<apiVars, sdVars, geoVars, b2aVars, evtVars>>

MasterStep ==
    /\ MasterEndOfRunAction
    /\ UNCHANGED <<apiVars, sdVars, geoVars, b2aVars, evtVars>>

SpecLive ==
    /\ InitRun
    /\ [][NextRun]_vars
    /\ \A w \in Workers : WF_vars(WorkerStep(w))
    /\ WF_vars(MasterStep)

\* ------------------------------------------------------------------- SpecMT
\* The multi-threaded run of Spec, for a process that may start MaxMTEvents
\* events.
InitMT ==
    /\ nThreads \in 1..MaxWorkers
    /\ InitRunVarsFor(MaxMTEvents)
    /\ InitApiVars
    /\ sdApp = "geant4_app"
    /\ InitSdVars
    /\ fGdmlFile = NoFile
    /\ InitGeoVars
    /\ ShippedB2a
    /\ InitEvtVars

SpecMT == InitMT /\ [][NextRun]_vars

\* ---------------------------------------------------------------- SpecStats
\* The master's EndOfRunAction applied to any sums and any event count: the
\* workers have ended, the master's accumulables hold fEdep and fEdep2 and
\* its run holds masterNofEvents events.
InitStats ==
    /\ nThreads = 1
    /\ runID = 1
    /\ runActive = TRUE
    /\ nToProcess \in 1..MaxMTEvents
    /\ eventsLeft = 0
    /\ nextEvent = nToProcess
    /\ masterNofEvents = nToProcess
    /\ wpc = [w \in Workers |-> "ended"]
    /\ wNofEvents = [w \in Workers |-> 0]
    /\ wEvent = [w \in Workers |-> 0]
    /\ wSteps = [w \in Workers |-> 0]
    /\ \E e \in 0..MaxStatSum, e2 \in 0..MaxStatSum2 :
          /\ fEdep = [t \in Threads |-> IF t = Master THEN e ELSE 0]
          /\ fEdep2 = [t \in Threads |-> IF t = Master THEN e2 ELSE 0]
    /\ evtEdep = [w \in Workers |-> 0]
    /\ stats = [t \in Threads |-> NoStats]
    /\ printed = NoStats
    /\ fInstance = TRUE
    /\ fBooked = TRUE
    /\ amOpen = [t \in Threads |-> t = Master]
    /\ amH1 = [t \in Threads |-> <<>>]
    /\ amRows = [t \in Threads |-> <<>>]
    /\ dropped = [t \in Threads |-> 0]
    /\ saveCalls = [t \in Threads |-> 0]
    /\ written = 0
    /\ evLog = [e \in 0..(MaxMTEvents - 1) |-> NoEdep]
    /\ evOwner = [e \in 0..(MaxMTEvents - 1) |-> 0]
    /\ merged = {}
    /\ prevTotal = 0
    /\ InitApiVars
    /\ sdApp = "geant4_app"
    /\ InitSdVars
    /\ fGdmlFile = NoFile
    /\ InitGeoVars
    /\ ShippedB2a
    /\ InitEvtVars

NextStats ==
    /\ MasterEndOfRunAction
    /\ UNCHANGED <<apiVars, sdVars, geoVars, b2aVars, evtVars>>

SpecStats == InitStats /\ [][NextStats]_vars

\* ------------------------------------------------------------------ SpecAPI
\* One RunAction object in a sequential run manager (the only thread is the
\* master); its public methods are called in any order.
InitAPI ==
    /\ nThreads = 1
    /\ InitRunVars
    /\ InitApiVars
    /\ sdApp = "geant4_app"
    /\ InitSdVars
    /\ fGdmlFile = NoFile
    /\ InitGeoVars
    /\ ShippedB2a
    /\ InitEvtVars

kernelVars == <<nThreads, runID, runActive, nToProcess, eventsLeft, nextEvent,
                masterNofEvents, wpc, wNofEvents, wEvent, wSteps, evtEdep,
                dropped, evLog, evOwner, prevTotal>>

API_BeginOfRunAction ==
    /\ apiCalls < MaxCalls
    /\ BeginOfRunAction(Master)
    /\ apiState' = "Accumulating"
    /\ apiCount' = 0
    /\ apiCalls' = apiCalls + 1
    /\ lastCall' = <<"BeginOfRunAction", 0>>
    /\ UNCHANGED <<kernelVars, stats, printed, saveCalls, written, merged>>

API_AddEdep(edep) ==
    /\ apiCalls < MaxCalls
    /\ AddEdep(Master, edep)
    /\ apiCount' = apiCount + 1
    /\ apiCalls' = apiCalls + 1
    /\ lastCall' = <<"AddEdep", edep>>
    /\ UNCHANGED <<kernelVars, apiState, stats, printed, fInstance, fBooked,
                   amOpen, amH1, amRows, saveCalls, written, merged>>

API_EndOfRunAction ==
    /\ apiCalls < MaxCalls
    /\ EndOfRunAction(Master, apiCount)
    /\ apiState' = IF apiCount = 0 THEN apiState ELSE "Merged"
    /\ apiCalls' = apiCalls + 1
    /\ lastCall' = <<"EndOfRunAction", apiCount>>
    /\ UNCHANGED <<kernelVars, apiCount, amH1, amRows>>

NextAPI ==
    /\ \/ API_BeginOfRunAction
       \/ \E e \in 0..(MaxSteps * MaxDep) : API_AddEdep(e)
       \/ API_EndOfRunAction
    /\ UNCHANGED <<sdVars, geoVars, b2aVars, evtVars>>

SpecAPI == InitAPI /\ [][NextAPI]_vars

\* ------------------------------------------------------------------- SpecSD
\* One sensitive detector and the steps its volume receives: the
\* SensitiveDetector of geant4_app or the TrackerSD of B2a.
Tracks   == {1, 2}
Chambers == {0, 1}

\* the primary track and the first chamber
EvtTrack == 1
EvtChamber == 0
TotalEnergyDeposits == {-1} \cup StepDeposits

InitSD ==
    /\ nThreads = 1
    /\ InitRunVars
    /\ InitApiVars
    /\ sdApp \in {"geant4_app", "B2a"}
    /\ InitSdVars
    /\ fGdmlFile = NoFile
    /\ InitGeoVars
    /\ ShippedB2a
    /\ InitEvtVars

\* SensitiveDetector::Initialize at the start of an event
SD_Initialize ==
    /\ sdApp = "geant4_app"
    /\ ~sdInEvent
    /\ sdEventID < MaxSDEvents
    /\ sdInEvent' = TRUE
    /\ sdSteps' = 0
    /\ fHitsCollection' = <<>>
    /\ fHCID' = IF fHCID < 0 THEN 0 ELSE fHCID
    /\ UNCHANGED <<sdApp, sdEventID, sdStep, sdSummary>>

SD_ProcessHitsZero(track, edep) ==
    /\ sdApp = "geant4_app"
    /\ sdInEvent
    /\ sdSteps < MaxSDSteps
    /\ sdSteps' = sdSteps + 1
    /\ IF edep < 0
       THEN /\ sdStep' = [edep |-> edep, ret |-> FALSE]
            /\ UNCHANGED fHitsCollection
       ELSE /\ fHitsCollection' =
                  Append(fHitsCollection,
                         [eventID |-> sdEventID, trackID |-> track,
                          edep |-> edep])
            /\ sdStep' = [edep |-> edep, ret |-> TRUE]
    /\ UNCHANGED <<sdApp, sdEventID, sdInEvent, fHCID, sdSummary>>

\* SensitiveDetector::ProcessHits for a step of track with deposit edep
SD_ProcessHits(track, edep) ==
    /\ sdApp = "geant4_app"
    /\ sdInEvent
    /\ sdSteps < MaxSDSteps
    /\ sdSteps' = sdSteps + 1
    /\ IF edep <= 0
       THEN /\ sdStep' = [edep |-> edep, ret |-> FALSE]
            /\ UNCHANGED fHitsCollection
       ELSE /\ fHitsCollection' =
                  Append(fHitsCollection,
                         [eventID |-> sdEventID, trackID |-> track,
                          edep |-> edep])
            /\ sdStep' = [edep |-> edep, ret |-> TRUE]
    /\ UNCHANGED <<sdApp, sdEventID, sdInEvent, fHCID, sdSummary>>

\* SensitiveDetector::EndOfEvent (verboseLevel is 0: nothing is printed)
SD_EndOfEvent ==
    /\ sdApp = "geant4_app"
    /\ sdInEvent
    /\ sdInEvent' = FALSE
    /\ sdEventID' = sdEventID + 1
    /\ UNCHANGED <<sdApp, sdSteps, fHitsCollection, fHCID, sdStep, sdSummary>>

TrackerSD_InitializeKeep ==
    /\ sdApp = "B2a"
    /\ ~sdInEvent
    /\ sdEventID < MaxSDEvents
    /\ sdInEvent' = TRUE
    /\ sdSteps' = 0
    /\ UNCHANGED <<sdApp, sdEventID, fHitsCollection, fHCID, sdStep, sdSummary>>

\* B2a TrackerSD::Initialize at the start of an event
TrackerSD_Initialize ==
    /\ sdApp = "B2a"
    /\ ~sdInEvent
    /\ sdEventID < MaxSDEvents
    /\ sdInEvent' = TRUE
    /\ sdSteps' = 0
    /\ fHitsCollection' = <<>>
    /\ UNCHANGED <<sdApp, sdEventID, fHCID, sdStep, sdSummary>>

\* B2a TrackerSD::ProcessHits for a step of track in chamber with deposit edep
TrackerSD_ProcessHits(track, chamber, edep) ==
    /\ sdApp = "B2a"
    /\ sdInEvent
    /\ sdSteps < MaxSDSteps
    /\ sdSteps' = sdSteps + 1
    /\ IF edep = 0
       THEN /\ sdStep' = [edep |-> edep, ret |-> FALSE]
            /\ UNCHANGED fHitsCollection
       ELSE /\ fHitsCollection' =
                  Append(fHitsCollection,
                         [trackID |-> track, chamberNb |-> chamber,
                          edep |-> edep])
            /\ sdStep' = [edep |-> edep, ret |-> TRUE]
    /\ UNCHANGED <<sdApp, sdEventID, sdInEvent, fHCID, sdSummary>>

\* the sum of the deposits of the hits of a collection
RECURSIVE TotalEdep(_)
TotalEdep(hits) ==
    IF hits = <<>> THEN 0
    ELSE TotalEdep(SubSeq(hits, 1, Len(hits) - 1)) + hits[Len(hits)].edep

\* B2a TrackerSD::EndOfEvent: prints the number of hits and their total Edep
TrackerSD_EndOfEvent ==
    /\ sdApp = "B2a"
    /\ sdInEvent
    /\ sdInEvent' = FALSE
    /\ sdEventID' = sdEventID + 1
    /\ sdSummary' = [nHits |-> Len(fHitsCollection),
                     totalEdep |-> TotalEdep(fHitsCollection)]
    /\ UNCHANGED <<sdApp, sdSteps, fHitsCollection, fHCID, sdStep>>

NextSD ==
    /\ \/ SD_Initialize
       \/ \E t \in Tracks, e \in TotalEnergyDeposits : SD_ProcessHits(t, e)
       \/ SD_EndOfEvent
       \/ TrackerSD_Initialize
       \/ \E t \in Tracks, c \in Chambers, e \in TotalEnergyDeposits :
              TrackerSD_ProcessHits(t, c, e)
       \/ TrackerSD_EndOfEvent
    /\ UNCHANGED <<runVars, apiVars, geoVars, b2aVars, evtVars>>

SpecSD == InitSD /\ [][NextSD]_vars

\* ------------------------------------------------------------------ SpecGeo
\* DetectorConstruction of geant4_app.  A GDML file is a tree of logical
\* volumes 1..NumLV: volume 1 is the world, daughters[v] lists the logical
\* volumes placed in v (one entry per placement), kind[v] is the name of v
\* and the number of its auxiliary entries of type "SensDet".
SeqsUpTo(S, n) == UNION {[1..k -> S] : k \in 0..n}

Kinds == {<<"A", 0>>, <<"A", 1>>, <<"A", 2>>, <<"B", 1>>}

GDMLFiles ==
    {[daughters |-> d, kind |-> k] :
        d \in {dd \in [1..NumLV -> SeqsUpTo(2..NumLV, MaxPlacements)] :
                  \A v \in 2..NumLV :
                      /\ Len(dd[v]) <= 1
                      /\ \A i \in 1..Len(dd[v]) : dd[v][i] > v},
        k \in {kk \in [1..NumLV -> Kinds \cup {<<"World", 0>>}] :
                  /\ kk[1] = <<"World", 0>>
                  /\ \A v \in 2..NumLV : kk[v] \in Kinds}}

InitGeo ==
    /\ nThreads = 1
    /\ InitRunVars
    /\ InitApiVars
    /\ sdApp = "geant4_app"
    /\ InitSdVars
    /\ fGdmlFile \in GDMLFiles \cup {NoFile}
    /\ InitGeoVars
    /\ ShippedB2a
    /\ InitEvtVars

RepeatLV(lv, n) == [i \in 1..n |-> lv]

\* DetectorConstruction::FindSensitiveVolumes(lv): the logical volumes it
\* pushes, in order: lv once per SensDet entry, then the volumes found in
\* each daughter
RECURSIVE FindSensitiveVolumes(_, _)
RECURSIVE FindInDaughters(_, _, _)
FindSensitiveVolumes(g, lv) ==
    RepeatLV(lv, g.kind[lv][2]) \o FindInDaughters(g, g.daughters[lv], 1)
FindInDaughters(g, ds, i) ==
    IF i > Len(ds) THEN <<>>
    ELSE FindSensitiveVolumes(g, ds[i]) \o FindInDaughters(g, ds, i + 1)

\* fLogicalVolumes[name] = lv for each volume found, in order
RECURSIVE Assign(_, _, _, _)
Assign(map, g, found, gen) ==
    IF found = <<>> THEN map
    ELSE Assign([map EXCEPT ![g.kind[Head(found)][1]] = <<gen, Head(found)>>],
                g, Tail(found), gen)

\* DetectorConstruction::Construct: LoadGDML or ConstructDefaultGeometry
Construct ==
    /\ gConstructs < MaxConstructs
    /\ gConstructs' = gConstructs + 1
    /\ sdDone' = FALSE
    /\ IF fGdmlFile # NoFile
       THEN LET gen   == gConstructs + 1
                found == FindSensitiveVolumes(fGdmlFile, 1)
            IN  /\ fParser' = gen
                /\ fWorldLogical' = <<gen, 1>>
                /\ fSensitiveVolumes' = fSensitiveVolumes \o
                       [i \in 1..Len(found) |-> fGdmlFile.kind[found[i]][1]]
                /\ fLogicalVolumes' =
                       Assign(fLogicalVolumes, fGdmlFile, found, gen)
       ELSE /\ fWorldLogical' = <<gConstructs + 1, 1>>
            /\ fSensitiveVolumes' = Append(fSensitiveVolumes, "Phantom")
            /\ fLogicalVolumes' =
                   [fLogicalVolumes EXCEPT !["Phantom"] = <<gConstructs + 1, 2>>]
            /\ UNCHANGED fParser
    /\ UNCHANGED <<fGdmlFile, detectors>>

\* DetectorConstruction::ConstructSDandField
ConstructSDandField ==
    /\ gConstructs > 0
    /\ ~sdDone
    /\ sdDone' = TRUE
    /\ detectors' = detectors \o
           [i \in 1..Len(fSensitiveVolumes) |->
               [name   |-> fSensitiveVolumes[i],
                volume |-> fLogicalVolumes[fSensitiveVolumes[i]]]]
    /\ UNCHANGED <<fGdmlFile, gConstructs, fParser, fWorldLogical,
                   fSensitiveVolumes, fLogicalVolumes>>

NextGeo ==
    /\ \/ Construct
       \/ ConstructSDandField
    /\ UNCHANGED <<runVars, apiVars, sdVars, b2aVars, evtVars>>

SpecGeo == InitGeo /\ [][NextGeo]_vars

\* ------------------------------------------------------------------ SpecB2a
\* B2a::DetectorConstruction.  The chamber count and the sizes are values
\* written in the source (5 chambers, spacing 80 cm, width 20 cm); the model
\* ranges over other settings of them as well.
InitB2a ==
    /\ nThreads = 1
    /\ InitRunVars
    /\ InitApiVars
    /\ sdApp = "geant4_app"
    /\ InitSdVars
    /\ fGdmlFile = NoFile
    /\ InitGeoVars
    /\ fNbOfChambers \in 0..MaxChambers
    /\ chamberSpacing \in Spacings
    /\ chamberWidth \in Widths
    /\ InitB2aVars
    /\ InitEvtVars

Materials == {"G4_Pb", "G4_Xe", "G4_AIR"}
MaxStepValues == {0, targetLength}

\* logical volumes in the order DefineVolumes creates them
WorldLV   == 1
TargetLV  == 2
TrackerLV == 3
ChamberLV(copyNo) == 4 + copyNo

InvalidSetupOrEqual(n, spacing, width) == n > 0 /\ spacing <= width

\* DefineVolumes lines 172-181: the condition of the fatal exception
InvalidSetup(n, spacing, width) == n > 0 /\ spacing < width

\* DefineVolumes lines 183-185: rmax of chamber copyNo; with one chamber
\* rmaxIncr is a division by 0 and copyNo * rmaxIncr is not a number
Rmax(n, trackerLength, copyNo) ==
    IF n = 1 THEN <<"NaN">>
    ELSE Frac(trackerLength * (n - 1) + 9 * copyNo * trackerLength,
              20 * (n - 1))

PlacementCopyZero(name, lv, mother, copyNo, z) ==
    [name |-> name, lv |-> lv, mother |-> mother, copyNo |-> 0,
     z |-> z, checked |-> fCheckOverlaps]

Placement(name, lv, mother, copyNo, z) ==
    [name |-> name, lv |-> lv, mother |-> mother, copyNo |-> copyNo,
     z |-> z, checked |-> fCheckOverlaps]

DefineVolumesWarning ==
    LET trackerLength == (fNbOfChambers + 1) * chamberSpacing
        trackerSize   == trackerLength \div 2
        firstPosition == chamberSpacing - trackerSize
        base == << Placement("World", WorldLV, 0, 0, 0),
                   Placement("Target", TargetLV, WorldLV, 0,
                             0 - ((targetLength + trackerLength) \div 2)),
                   Placement("Tracker", TrackerLV, WorldLV, 0, 0) >>
        chambers == [i \in 1..fNbOfChambers |->
                        Placement("Chamber_PV", ChamberLV(i - 1), TrackerLV,
                                  i - 1,
                                  firstPosition + (i - 1) * chamberSpacing)
                            @@ [rmax |-> Rmax(fNbOfChambers, trackerLength,
                                              i - 1)]]
        baseMat == <<"G4_AIR", fTargetMaterial, "G4_AIR">>
    IN  /\ b2aState = "PreInit"
        /\ fLogicTarget' = TargetLV
        /\ b2aException' =
               IF InvalidSetup(fNbOfChambers, chamberSpacing, chamberWidth)
               THEN "InvalidSetup" ELSE b2aException
        /\ placements' = base \o chambers
        /\ lvMaterial' = baseMat \o
               [i \in 1..fNbOfChambers |-> fChamberMaterial]
        /\ IF fNbOfChambers = 0
           THEN \/ /\ b2aState' = "Crashed"
                   /\ UNCHANGED <<fLogicChamber, fStepLimit>>
                \/ /\ b2aState' = "Constructed"
                   /\ fStepLimit' = chamberWidth \div 2
                   /\ UNCHANGED fLogicChamber
           ELSE /\ b2aState' = "Constructed"
                /\ fLogicChamber' = ChamberLV(fNbOfChambers - 1)
                /\ fStepLimit' = chamberWidth \div 2
        /\ UNCHANGED <<fNbOfChambers, chamberSpacing, chamberWidth,
                       fCheckOverlaps, fTargetMaterial, fChamberMaterial,
                       lvSD, b2aSDDone>>

\* B2a::DetectorConstruction::Construct: DefineVolumes
DefineVolumes ==
    LET trackerLength == (fNbOfChambers + 1) * chamberSpacing
        trackerSize   == trackerLength \div 2
        firstPosition == chamberSpacing - trackerSize
        base == << Placement("World", WorldLV, 0, 0, 0),
                   Placement("Target", TargetLV, WorldLV, 0,
                             0 - ((targetLength + trackerLength) \div 2)),
                   Placement("Tracker", TrackerLV, WorldLV, 0, 0) >>
        chambers == [i \in 1..fNbOfChambers |->
                        Placement("Chamber_PV", ChamberLV(i - 1), TrackerLV,
                                  i - 1,
                                  firstPosition + (i - 1) * chamberSpacing)
                            @@ [rmax |-> Rmax(fNbOfChambers, trackerLength,
                                              i - 1)]]
        baseMat == <<"G4_AIR", fTargetMaterial, "G4_AIR">>
    IN  /\ b2aState = "PreInit"
        /\ fLogicTarget' = TargetLV
        /\ IF InvalidSetup(fNbOfChambers, chamberSpacing, chamberWidth)
           THEN /\ b2aState' = "Aborted"
                /\ b2aException' = "InvalidSetup"
                /\ placements' = base
                /\ lvMaterial' = baseMat
                /\ UNCHANGED <<fLogicChamber, fStepLimit>>
           ELSE /\ placements' = base \o chambers
                /\ lvMaterial' = baseMat \o
                       [i \in 1..fNbOfChambers |-> fChamberMaterial]
                /\ UNCHANGED b2aException
                /\ IF fNbOfChambers = 0
                   THEN \* fLogicChamber->SetVisAttributes on a null pointer:
                        \* the process faults, or the call goes unnoticed
                        \/ /\ b2aState' = "Crashed"
                           /\ UNCHANGED <<fLogicChamber, fStepLimit>>
                        \/ /\ b2aState' = "Constructed"
                           /\ fStepLimit' = chamberWidth \div 2
                           /\ UNCHANGED fLogicChamber
                   ELSE /\ b2aState' = "Constructed"
                        /\ fLogicChamber' = ChamberLV(fNbOfChambers - 1)
                        /\ fStepLimit' = chamberWidth \div 2
        /\ UNCHANGED <<fNbOfChambers, chamberSpacing, chamberWidth,
                       fCheckOverlaps, fTargetMaterial, fChamberMaterial,
                       lvSD, b2aSDDone>>

\* B2a::DetectorConstruction::ConstructSDandField
B2a_ConstructSDandField ==
    /\ b2aState = "Constructed"
    /\ ~b2aSDDone
    /\ b2aSDDone' = TRUE
    /\ lvSD' = lvSD \cup {fLogicChamber}
    /\ UNCHANGED <<fNbOfChambers, chamberSpacing, chamberWidth,
                   fCheckOverlaps, fTargetMaterial, fChamberMaterial,
                   b2aState, b2aException, placements, lvMaterial,
                   fLogicTarget, fLogicChamber, fStepLimit>>

\* B2a::DetectorConstruction::SetTargetMaterial
SetTargetMaterial(m) ==
    /\ b2aState \in {"PreInit", "Constructed"}
    /\ fTargetMaterial # m
    /\ fTargetMaterial' = m
    /\ lvMaterial' = IF fLogicTarget # 0
                     THEN [lvMaterial EXCEPT ![fLogicTarget] = m]
                     ELSE lvMaterial
    /\ UNCHANGED <<fNbOfChambers, chamberSpacing, chamberWidth,
                   fCheckOverlaps, fChamberMaterial, b2aState, b2aException,
                   placements, fLogicTarget, fLogicChamber, fStepLimit,
                   lvSD, b2aSDDone>>

\* B2a::DetectorConstruction::SetChamberMaterial
SetChamberMaterial(m) ==
    /\ b2aState \in {"PreInit", "Constructed"}
    /\ fChamberMaterial # m
    /\ fChamberMaterial' = m
    /\ lvMaterial' = IF fLogicChamber # 0
                     THEN [lvMaterial EXCEPT ![fLogicChamber] = m]
                     ELSE lvMaterial
    /\ UNCHANGED <<fNbOfChambers, chamberSpacing, chamberWidth,
                   fCheckOverlaps, fTargetMaterial, b2aState, b2aException,
                   placements, fLogicTarget, fLogicChamber, fStepLimit,
                   lvSD, b2aSDDone>>

\* B2a::DetectorConstruction::SetMaxStep
SetMaxStep(maxStep) ==
    /\ b2aState \in {"PreInit", "Constructed"}
    /\ fStepLimit' = IF fStepLimit # 0 /\ maxStep > 0
                     THEN maxStep ELSE fStepLimit
    /\ UNCHANGED <<fNbOfChambers, chamberSpacing, chamberWidth,
                   fCheckOverlaps, fTargetMaterial, fChamberMaterial,
                   b2aState, b2aException, placements, lvMaterial,
                   fLogicTarget, fLogicChamber, lvSD, b2aSDDone>>

\* B2a::DetectorConstruction::SetCheckOverlaps
SetCheckOverlaps(checkOverlaps) ==
    /\ b2aState \in {"PreInit", "Constructed"}
    /\ fCheckOverlaps' = checkOverlaps
    /\ UNCHANGED <<fNbOfChambers, chamberSpacing, chamberWidth,
                   fTargetMaterial, fChamberMaterial, b2aState, b2aException,
                   placements, lvMaterial, fLogicTarget, fLogicChamber,
                   fStepLimit, lvSD, b2aSDDone>>

NextB2a ==
    /\ \/ DefineVolumes
       \/ B2a_ConstructSDandField
       \/ \E m \in Materials : SetTargetMaterial(m)
       \/ \E m \in Materials : SetChamberMaterial(m)
       \/ \E v \in MaxStepValues : SetMaxStep(v)
       \/ \E b \in BOOLEAN : SetCheckOverlaps(b)
    /\ UNCHANGED <<runVars, apiVars, sdVars, geoVars, evtVars>>

SpecB2a == InitB2a /\ [][NextB2a]_vars

\* --------------------------------------------------------------- SpecB2aRun
\* The B2a application: /run/initialize constructs the geometry, then runs
\* are started; the events of a run deliver steps to the TrackerSD.
InitB2aRun ==
    /\ nThreads = 1
    /\ InitRunVars
    /\ InitApiVars
    /\ sdApp = "B2a"
    /\ InitSdVars
    /\ fGdmlFile = NoFile
    /\ InitGeoVars
    /\ fNbOfChambers \in 0..MaxChambers
    /\ chamberSpacing \in Spacings
    /\ chamberWidth \in Widths
    /\ InitB2aVars
    /\ InitEvtVars

\* /run/initialize: B2a::DetectorConstruction::Construct
B2a_Initialize ==
    /\ DefineVolumes
    /\ UNCHANGED <<runVars, sdVars>>

\* start of the first run: ConstructSDandField on the worker
B2a_WorkerInitialize ==
    /\ B2a_ConstructSDandField
    /\ UNCHANGED <<runVars, sdVars>>

\* /run/beamOn n: B2a::RunAction::BeginOfRunAction
B2a_BeginOfRunAction(n) ==
    /\ b2aState = "Constructed"
    /\ b2aSDDone
    /\ ~runActive
    /\ runID' = runID + 1
    /\ runActive' = TRUE
    /\ nToProcess' = n
    /\ nextEvent' = 0
    /\ UNCHANGED <<nThreads, eventsLeft, masterNofEvents, wpc, wNofEvents,
                   wEvent, wSteps, fEdep, fEdep2, evtEdep, stats, printed,
                   fInstance, fBooked, amOpen, amH1, amRows, dropped,
                   saveCalls, written, evLog, evOwner, merged, prevTotal>>
    /\ UNCHANGED <<sdVars, b2aVars>>

\* start of an event of the run: TrackerSD::Initialize
\* (B2a::EventAction::BeginOfEventAction does nothing)
B2a_BeginOfEvent ==
    /\ runActive
    /\ nextEvent < nToProcess
    /\ TrackerSD_Initialize
    /\ nextEvent' = nextEvent + 1
    /\ UNCHANGED <<nThreads, runID, runActive, nToProcess, eventsLeft,
                   masterNofEvents, wpc, wNofEvents, wEvent, wSteps, fEdep,
                   fEdep2, evtEdep, stats, printed, fInstance, fBooked,
                   amOpen, amH1, amRows, dropped, saveCalls, written, evLog,
                   evOwner, merged, prevTotal>>
    /\ UNCHANGED b2aVars

\* a step in a chamber, and the end of the event: the TrackerSD callbacks
\* (B2a::SteppingAction and B2a::EventAction::EndOfEventAction do nothing)
B2a_Event ==
    /\ runActive
    /\ \/ \E c \in Chambers, e \in StepDeposits :
              TrackerSD_ProcessHits(EvtTrack, c, e)
       \/ TrackerSD_EndOfEvent
    /\ UNCHANGED <<runVars, b2aVars>>

\* B2a::RunAction::EndOfRunAction
B2a_EndOfRunAction ==
    /\ runActive
    /\ ~sdInEvent
    /\ nextEvent = nToProcess
    /\ runActive' = FALSE
    /\ UNCHANGED <<nThreads, runID, nToProcess, eventsLeft, nextEvent,
                   masterNofEvents, wpc, wNofEvents, wEvent, wSteps, fEdep,
                   fEdep2, evtEdep, stats, printed, fInstance, fBooked,
                   amOpen, amH1, amRows, dropped, saveCalls, written, evLog,
                   evOwner, merged, prevTotal>>
    /\ UNCHANGED <<sdVars, b2aVars>>

NextB2aRun ==
    /\ \/ B2a_Initialize
       \/ B2a_WorkerInitialize
       \/ \E n \in 1..(MaxSDEvents - sdEventID) : B2a_BeginOfRunAction(n)
       \/ B2a_BeginOfEvent
       \/ B2a_Event
       \/ B2a_EndOfRunAction
    /\ UNCHANGED <<apiVars, geoVars, evtVars>>

SpecB2aRun == InitB2aRun /\ [][NextB2aRun]_vars

\* ------------------------------------------------------------------ SpecEvt
\* The event loop of one worker with its sensitive detector.  For each event
\* the event manager calls the detector's Initialize, then
\* BeginOfEventAction; for each step the detector's ProcessHits if the step
\* is in a sensitive volume, then UserSteppingAction; at the end of the
\* event the detector's EndOfEvent, then EndOfEventAction.
EvtDeposits == 0..MaxEvtDep

InitEvt ==
    /\ nThreads = 1
    /\ InitRunVarsFor(MaxSDEvents)
    /\ InitApiVars
    /\ sdApp \in {"geant4_app", "B2a"}
    /\ InitSdVars
    /\ fGdmlFile = NoFile
    /\ InitGeoVars
    /\ ShippedB2a
    /\ InitEvtVars

\* BeamOn(n) of geant4_app: the master's BeginOfRunAction
Evt_BeamOn(n) ==
    /\ sdApp = "geant4_app"
    /\ MasterBeginOfRunAction(n)
    /\ sdEventID' = 0
    /\ evIn' = [e \in DOMAIN evIn |-> NoSteps("idle")]
    /\ evHits' = [e \in DOMAIN evHits |-> 0]
    /\ UNCHANGED <<sdApp, sdInEvent, sdSteps, fHitsCollection, fHCID, sdStep,
                   sdSummary, evtStep, evtOutside>>

\* the run actions of geant4_app around the event loop
Evt_RunAction ==
    /\ sdApp = "geant4_app"
    /\ ~sdInEvent
    /\ \/ WorkerBeginOfRunAction(1)
       \/ WorkerEndOfRunAction(1)
       \/ MasterEndOfRunAction
    /\ UNCHANGED <<sdVars, evtVars>>

\* start of an event of geant4_app
Evt_BeginOfEvent ==
    /\ SD_Initialize
    /\ BeginOfEventAction(1)
    /\ evtOutside' = 0
    /\ evIn' = [evIn EXCEPT ![nextEvent] = NoSteps("none")]
    /\ UNCHANGED <<evtStep, evHits>>

\* one step of geant4_app, with deposit edep, in a sensitive volume or not
Evt_Step(track, edep, sensitive) ==
    /\ sdApp = "geant4_app"
    /\ IF sensitive THEN SD_ProcessHits(track, edep) ELSE UNCHANGED sdVars
    /\ UserSteppingAction(1, edep)
    /\ evtStep' = [edep |-> edep, sensitive |-> sensitive]
    /\ evtOutside' = IF sensitive THEN evtOutside ELSE evtOutside + edep
    /\ evIn' = [evIn EXCEPT
                   ![wEvent[1]] =
                       IF @.kind = "none"
                       THEN [kind |-> "one", edep |-> edep,
                             sensitive |-> sensitive]
                       ELSE NoSteps("many")]
    /\ UNCHANGED evHits

\* end of an event of geant4_app
Evt_EndOfEvent ==
    /\ SD_EndOfEvent
    /\ EndOfEventAction(1)
    /\ evHits' = [evHits EXCEPT ![wEvent[1]] = Len(fHitsCollection)]
    /\ UNCHANGED <<evtStep, evtOutside, evIn>>

\* an event of B2a: B2a::EventAction and B2a::SteppingAction do nothing
Evt_B2a ==
    /\ \/ TrackerSD_Initialize /\ UNCHANGED evtStep
       \/ \E e \in EvtDeposits :
              /\ TrackerSD_ProcessHits(EvtTrack, EvtChamber, e)
              /\ evtStep' = [edep |-> e, sensitive |-> TRUE]
       \/ TrackerSD_EndOfEvent /\ UNCHANGED evtStep
    /\ UNCHANGED <<runVars, evtOutside, evIn, evHits>>

NextEvt ==
    /\ \/ \E n \in 1..eventsLeft : Evt_BeamOn(n)
       \/ Evt_RunAction
       \/ Evt_BeginOfEvent
       \/ \E e \in EvtDeposits, s \in BOOLEAN : Evt_Step(EvtTrack, e, s)
       \/ Evt_EndOfEvent
       \/ Evt_B2a
    /\ UNCHANGED <<apiVars, geoVars, b2aVars>>

SpecEvt == InitEvt /\ [][NextEvt]_vars

\* ---------------------------------------------------------- run histories
\* deposits passed to AddEdep for the events e, e+1, ... of the current run
\* that worker w processed (w = 0: that any worker processed)
RECURSIVE LogFrom(_, _)
LogFrom(e, w) ==
    IF e \notin DOMAIN evLog THEN <<>>
    ELSE (IF evLog[e] # NoEdep /\ (w = 0 \/ evOwner[e] = w)
          THEN <<evLog[e]>> ELSE <<>>) \o LogFrom(e + 1, w)

RECURSIVE SumSeq(_)
SumSeq(s) == IF s = <<>> THEN 0 ELSE Head(s) + SumSeq(Tail(s))

RECURSIVE SumSqSeq(_)
SumSqSeq(s) == IF s = <<>> THEN 0 ELSE Head(s) * Head(s) + SumSqSeq(Tail(s))

\* one accumulator that receives the deposits of s in order
RECURSIVE Fold(_)
Fold(s) ==
    IF s = <<>> THEN [edep |-> 0, edep2 |-> 0]
    ELSE AddEdepTo(Fold(SubSeq(s, 1, Len(s) - 1)), s[Len(s)])

Perms(s) ==
    {[i \in 1..Len(s) |-> s[p[i]]] : p \in Permutations(1..Len(s))}

\* ------------------------------------------------------------------- claims

\* C1: merging the workers' final sums into the master, in any merge order
\* and for any partition of the events among the workers, gives the run
\* statistics (total, mean, rms) of one accumulator that received every
\* event of the run through AddEdep.
C1_MergeEqualsSingleAccumulator ==
    printed # NoStats =>
        LET all == LogFrom(0, 0)
            one == Fold(all)
        IN  /\ Len(all) = nToProcess
            /\ printed = Derive(one.edep, one.edep2, Len(all))

C1_Witness ==
    /\ printed # NoStats
    /\ {1, 2} \subseteq merged
    /\ printed.rmsSq # <<0, 1>>

\* C2: after a reset, a worker's fEdep is the arithmetic sum of the deposits
\* passed to AddEdep and fEdep2 the sum of their squares, and feeding the
\* same deposits in any other order gives the same sums.
C2_SumIndependentOfOrder ==
    \A w \in ActiveWorkers :
        wpc[w] # "idle" =>
            LET s == LogFrom(0, w)
            IN  /\ fEdep[w] = SumSeq(s)
                /\ fEdep2[w] = SumSqSeq(s)
                /\ \A p \in Perms(s) :
                       Fold(p) = [edep |-> fEdep[w], edep2 |-> fEdep2[w]]

C2_Witness ==
    \E w \in ActiveWorkers :
        /\ wpc[w] # "idle"
        /\ Len(LogFrom(0, w)) >= 2
        /\ LogFrom(0, w)[1] # LogFrom(0, w)[2]
        /\ fEdep2[w] > fEdep[w]

\* C5: a thread whose run holds 0 events still merges, derives the sentinel
\* statistics mean = 0 and rms = 0 at run end, and saves the output.
C5_ZeroEventRunSentinel ==
    \A w \in ActiveWorkers :
        (wpc[w] = "ended" /\ wNofEvents[w] = 0) =>
            /\ stats[w] # NoStats
            /\ stats[w].mean = <<0, 1>>
            /\ stats[w].rmsSq = <<0, 1>>
            /\ w \in merged
            /\ saveCalls[w] = 1

\* C10: BeginOfRunAction zeroes the accumulator whatever its history: the
\* sums the master holds and reports at the end of a run are those of the
\* events of that run only.
C10_SumsOfThisRunOnly ==
    /\ (runActive /\ merged = {}) => (fEdep[Master] = 0 /\ fEdep2[Master] = 0)
    /\ printed # NoStats =>
          /\ fEdep[Master] = SumSeq(LogFrom(0, 0))
          /\ fEdep2[Master] = SumSqSeq(LogFrom(0, 0))
          /\ printed.total = SumSeq(LogFrom(0, 0))

C10_Witness ==
    /\ runID >= 2
    /\ printed # NoStats
    /\ prevTotal > 0
    /\ printed.total # prevTotal

C3_OneHitPerPositiveStep ==
    [][sdSteps' = sdSteps + 1 =>
          /\ sdStep'.edep <= 0 => fHitsCollection' = fHitsCollection
          /\ sdStep'.edep > 0 =>
                /\ Len(fHitsCollection') = Len(fHitsCollection) + 1
                /\ SubSeq(fHitsCollection', 1, Len(fHitsCollection))
                       = fHitsCollection
          /\ \A i \in 1..Len(fHitsCollection') :
                fHitsCollection'[i].edep > 0]_vars

\* the logical volumes of the tree of GDML file g
RECURSIVE Reachable(_, _)
Reachable(g, lv) ==
    {lv} \cup UNION {Reachable(g, g.daughters[lv][i]) :
                        i \in 1..Len(g.daughters[lv])}

Count(seq, P(_)) == Cardinality({i \in 1..Len(seq) : P(seq[i])})

\* C7: a second Construct on the same DetectorConstruction, with the same
\* geometry, leaves the list of sensitive volumes and the name-to-volume
\* map as the first Construct left them.
C7_DiscoveryIdempotent ==
    [][(gConstructs >= 1 /\ gConstructs' = gConstructs + 1) =>
          /\ fSensitiveVolumes' = fSensitiveVolumes
          /\ \A n \in VolNames :
                fLogicalVolumes'[n][2] = fLogicalVolumes[n][2]]_vars

\* C8: after discovery every logical volume with a SensDet annotation has
\* exactly one entry in the sensitive index and every other volume none,
\* and ConstructSDandField makes exactly one detector per sensitive volume.
C8_OneEntryPerSensitiveVolume ==
    (gConstructs = 1 /\ fGdmlFile # NoFile) =>
        \A lv \in Reachable(fGdmlFile, 1) :
            LET name == fGdmlFile.kind[lv][1]
                want == IF fGdmlFile.kind[lv][2] > 0 THEN 1 ELSE 0
                Mine(n) == n = name /\ fLogicalVolumes[n] = <<1, lv>>
                MyDetector(d) == d.volume = <<1, lv>>
            IN  /\ Count(fSensitiveVolumes, Mine) = want
                /\ sdDone => Count(detectors, MyDetector) = want

Chambers_PV == {i \in 1..Len(placements) : placements[i].name = "Chamber_PV"}

C9_EveryChamberSensitive ==
    b2aSDDone =>
        /\ Cardinality(Chambers_PV) = fNbOfChambers
        /\ \A i \in Chambers_PV : placements[i].lv \in lvSD

\* Analysis::Save() calls of the current run, over the threads 0..t
RECURSIVE SaveCallsUpTo(_)
SaveCallsUpTo(t) ==
    IF t < 0 THEN 0 ELSE saveCalls[t] + SaveCallsUpTo(t - 1)

\* C11: in one run Analysis::Save (write and close of the output) happens
\* exactly once over the master's and the workers' EndOfRunAction, and not
\* before the last worker has merged.
C11_SaveOncePerRun ==
    /\ SaveCallsUpTo(MaxWorkers) <= 1
    /\ SaveCallsUpTo(MaxWorkers) > 0 =>
          \A w \in ActiveWorkers : wpc[w] = "ended"
    /\ (runID >= 1 /\ ~runActive) =>
          (SaveCallsUpTo(MaxWorkers) = 1 /\ written = 1)

\* threads that have called an Analysis operation (Book, FillH1,
\* FillNtuple*Column, AddNtupleRow, Save) in the current run
SinkThreads ==
    (IF runID >= 1 THEN {Master} ELSE {})
        \cup {w \in ActiveWorkers : wpc[w] # "idle"}
        \cup {t \in Threads : saveCalls[t] > 0}

\* workers that have called FillH1 and AddNtupleRow in the current run
FillThreads == {evOwner[e] : e \in {x \in DOMAIN evLog : evLog[x] # NoEdep}}

\* C12: the operations of the output sink are performed by one thread only,
\* the output owner, and no two workers are inside EndOfEventAction's fills
\* at the same time.
C12_SingleOutputOwner ==
    /\ Cardinality(SinkThreads) <= 1
    /\ Cardinality(FillThreads) <= 1
    /\ Cardinality({w \in ActiveWorkers : wpc[w] = "inEvent"}) <= 1

\* C13: accumulation state is thread-confined: a worker's fEdep, fEdep2 and
\* per-event deposit change only in a callback of that worker, and a
\* worker's AddEdep at the end of an event changes that worker's sums only.
C13_AccumulationThreadConfined ==
    [][\A w \in Workers :
          /\ (fEdep'[w] # fEdep[w] \/ fEdep2'[w] # fEdep2[w]
                  \/ evtEdep'[w] # evtEdep[w]) =>
                /\ wpc'[w] # wpc[w] \/ wSteps'[w] # wSteps[w]
                /\ runID' = runID /\ runActive' = runActive
                /\ \A v \in Workers \ {w} :
                      /\ wpc'[v] = wpc[v]
                      /\ wSteps'[v] = wSteps[v]
                      /\ wNofEvents'[v] = wNofEvents[v]
          /\ wNofEvents'[w] = wNofEvents[w] + 1 =>
                /\ fEdep' = [fEdep EXCEPT ![w] = @ + evtEdep[w]]
                /\ fEdep2' = [fEdep2 EXCEPT ![w] = @ + evtEdep[w] * evtEdep[w]]
                /\ evtEdep' = evtEdep]_vars

C13_Witness ==
    \E w1, w2 \in ActiveWorkers :
        /\ w1 # w2
        /\ fEdep[w1] > 0
        /\ fEdep[w2] = 0
        /\ wpc[w2] = "inEvent"
        /\ evtEdep[w2] > 0
        /\ evtEdep[w2] # evtEdep[w1]

\* the sum of f over the workers 1..w
RECURSIVE SumWorkers(_, _)
SumWorkers(f, w) == IF w = 0 THEN 0 ELSE f[w] + SumWorkers(f, w - 1)

\* C14: a worker's sums are merged into the master's only after the worker
\* has applied the update of its last event, and the master computes its
\* statistics only after every worker has ended and merged.
C14_MergeAfterBarrier ==
    /\ \A w \in ActiveWorkers :
          w \in merged =>
              /\ wpc[w] = "ended"
              /\ nextEvent = nToProcess
              /\ Len(LogFrom(0, w)) = wNofEvents[w]
              /\ fEdep[w] = SumSeq(LogFrom(0, w))
              /\ fEdep2[w] = SumSqSeq(LogFrom(0, w))
    /\ stats[Master] # NoStats =>
          /\ \A w \in ActiveWorkers :
                /\ wpc[w] = "ended"
                /\ wNofEvents[w] > 0 => w \in merged
                /\ wNofEvents[w] = 0 => fEdep[w] = 0
          /\ stats[Master].total = SumWorkers(fEdep, nThreads)
          /\ fEdep2[Master] = SumWorkers(fEdep2, nThreads)

C14_Witness ==
    /\ stats[Master] # NoStats
    /\ nThreads = 2
    /\ merged = {0, 1, 2}
    /\ fEdep[1] > 0
    /\ fEdep[2] > fEdep[1]

HitDeposits(hits) == [i \in 1..Len(hits) |-> hits[i].edep]

Scn16Deposits == <<1, 0, 2>>
Scn16Hits     == <<1, 0, 1>>

\* a run of three events on one worker, each event consisting of one step in
\* a sensitive volume, with the deposits 1, 0 and 2; all three have ended
Scn16 ==
    /\ sdApp = "geant4_app"
    /\ nThreads = 1
    /\ nToProcess = 3
    /\ \A e \in 0..2 :
          /\ evLog[e] # NoEdep
          /\ evIn[e] = [kind |-> "one", edep |-> Scn16Deposits[e + 1],
                        sensitive |-> TRUE]

\* C16: in that scenario the events hand the deposits 1, 0, 2 to the run
\* accumulator and leave 1, 0, 1 hits; the worker's sums and, after the
\* merge, the master's hold sumEdep = 3 over 3 events, with mean 1.
C16_ScenarioOneWorker ==
    Scn16 =>
        /\ \A e \in 0..2 :
              /\ evLog[e] = Scn16Deposits[e + 1]
              /\ evHits[e] = Scn16Hits[e + 1]
        /\ wNofEvents[1] = 3
        /\ fEdep[1] = 3
        /\ printed # NoStats =>
              /\ fEdep[Master] = 3
              /\ masterNofEvents = 3
              /\ printed.total = 3
              /\ printed.mean = <<1, 1>>

C16_Witness ==
    /\ Scn16
    /\ printed # NoStats
    /\ 1 \in merged

\* the events of the current run that worker w processed
EventsOf(w) == {e \in DOMAIN evLog : evLog[e] # NoEdep /\ evOwner[e] = w}

\* a run of four events on two workers, each worker processing two events,
\* every event with deposit 1
Scn17 ==
    /\ nThreads = 2
    /\ nToProcess = 4
    /\ \A e \in 0..3 : evLog[e] = 1
    /\ Cardinality(EventsOf(1)) = 2
    /\ Cardinality(EventsOf(2)) = 2

\* C17: in that scenario the merged master accumulator holds sumEdep = 4,
\* sumEdepSquared = 4 and 4 events, and the statistics are mean = 1, rms = 0.
C17_ScenarioTwoWorkers ==
    (Scn17 /\ printed # NoStats) =>
        /\ fEdep[Master] = 4
        /\ fEdep2[Master] = 4
        /\ masterNofEvents = 4
        /\ printed.total = 4
        /\ printed.mean = <<1, 1>>
        /\ printed.rmsSq = <<0, 1>>

C17_Witness ==
    /\ Scn17
    /\ printed # NoStats
    /\ merged = {0, 1, 2}

\* C18: the statistics printed at run end are totalEdep = sumEdep,
\* meanEdep = sumEdep / eventCount and
\* rms = sqrt(max(0, sumEdepSquared - sumEdep^2 / eventCount)) / eventCount:
\* the biased formula, a negative radicand clamped to 0.
C18_StatisticsFormulas ==
    printed # NoStats =>
        LET n   == masterNofEvents
            rad == n * fEdep2[Master] - fEdep[Master] * fEdep[Master]
            clamped == IF rad > 0 THEN rad ELSE 0
        IN  /\ printed.total = fEdep[Master]
            /\ printed.mean[1] * n = fEdep[Master] * printed.mean[2]
            /\ printed.rmsSq[1] * n * n * n = clamped * printed.rmsSq[2]
            /\ printed.mean[2] > 0 /\ printed.rmsSq[2] > 0

C18_Witness ==
    /\ printed # NoStats
    /\ masterNofEvents > 1
    /\ masterNofEvents * fEdep2[Master] > fEdep[Master] * fEdep[Master]
    /\ printed.mean[2] > 1
    /\ printed.rmsSq[1] > 0

\* fills and rows the workers' analysis managers have rejected
DroppedRows == SumWorkers(dropped, nThreads)

\* C19: a failed histogram fill or ntuple row at the end of an event does
\* not fail the run: the event is still added to the run accumulator, the
\* remaining events are processed, and the statistics summary printed at
\* the end of the run reports the number of dropped rows.
C19_SummaryReportsDroppedRows ==
    printed # NoStats =>
        /\ Len(LogFrom(0, 0)) = nToProcess
        /\ printed.total = SumSeq(LogFrom(0, 0))
        /\ DroppedRows > 0 =>
              /\ "dropped" \in DOMAIN printed
              /\ printed.dropped = DroppedRows

\* C20: the fatal geometry error is raised during geometry construction,
\* before any run starts and before any event is processed: in a state in
\* which the invalid setup has been detected no run has begun, no detector
\* has been attached, no event has begun and no step has been captured.
C20_FatalErrorBeforeAnyEvent ==
    b2aException = "InvalidSetup" =>
        /\ b2aState = "Aborted"
        /\ runID = 0 /\ ~runActive
        /\ ~b2aSDDone /\ lvSD = {}
        /\ sdEventID = 0 /\ ~sdInEvent /\ sdSteps = 0
        /\ fHitsCollection = <<>>
        /\ \A t \in Threads : fEdep[t] = 0 /\ fEdep2[t] = 0

C20_Witness ==
    /\ b2aException = "InvalidSetup"
    /\ b2aState = "Aborted"
    /\ fNbOfChambers >= 1
    /\ chamberSpacing < chamberWidth

\* the sum of f over the workers 1..w that are in the set S
RECURSIVE SumOver(_, _, _)
SumOver(f, S, w) ==
    IF w = 0 THEN 0
    ELSE (IF w \in S THEN f[w] ELSE 0) + SumOver(f, S, w - 1)

\* C21: each worker's final sums are added into the master's accumulables
\* exactly once, for any number of workers and any interleaving of the
\* workers' and the master's EndOfRunAction: at every point of a run the
\* master holds the sum of the sums of the workers that have merged, a merge
\* adds the merging worker's sums and nothing else, no worker merges twice,
\* and when the master reports, every worker that processed an event has
\* merged.
C21_EachWorkerMergedOnce ==
    /\ [](runID >= 1 =>
            /\ fEdep[Master] = SumOver(fEdep, merged, nThreads)
            /\ fEdep2[Master] = SumOver(fEdep2, merged, nThreads)
            /\ printed # NoStats =>
                  /\ \A w \in ActiveWorkers :
                        fEdep[w] > 0 => w \in merged
                  /\ fEdep[Master] = SumWorkers(fEdep, nThreads)
                  /\ fEdep2[Master] = SumWorkers(fEdep2, nThreads))
    /\ [][\A w \in Workers :
             (wpc[w] # "ended" /\ wpc'[w] = "ended") =>
                 /\ w \notin merged
                 /\ fEdep'[Master] = fEdep[Master] + fEdep[w]
                 /\ fEdep2'[Master] = fEdep2[Master] + fEdep2[w]
                 /\ fEdep'[w] = fEdep[w] /\ fEdep2'[w] = fEdep2[w]]_vars

C21_Witness ==
    /\ nThreads = 2
    /\ printed # NoStats
    /\ merged = {0, 1, 2}
    /\ fEdep[1] > 0 /\ fEdep[2] > 0
    /\ fEdep[Master] = fEdep[1] + fEdep[2]
    /\ fEdep2[Master] > fEdep[Master]

\* the second components (edep) of the ntuple rows
RowDeposits(rows) == [i \in 1..Len(rows) |-> rows[i][2]]

\* C22: every processed event is emitted exactly once and consistently: at
\* the end of each event its worker's accumulator has received one AddEdep,
\* histogram 0 one fill and the ntuple one row, all with the event's deposit
\* and the row with the event's id, so that after n events the worker's
\* accumulator has received n updates and the table holds n rows whose edep
\* values sum to the accumulator's fEdep.
C22_EveryEventEmittedOnce ==
    \A w \in ActiveWorkers :
        (runActive /\ wpc[w] # "idle") =>
            /\ Len(LogFrom(0, w)) = wNofEvents[w]
            /\ fEdep[w] = SumSeq(LogFrom(0, w))
            /\ Len(amH1[w]) = wNofEvents[w]
            /\ Len(amRows[w]) = wNofEvents[w]
            /\ \A i \in 1..Len(amRows[w]) :
                  /\ amRows[w][i][1] \in EventsOf(w)
                  /\ amRows[w][i][2] = evLog[amRows[w][i][1]]
                  /\ amH1[w][i] = amRows[w][i][2]
            /\ SumSeq(RowDeposits(amRows[w])) = fEdep[w]

\* C23: the hit collection is created fresh for every event: Initialize
\* installs an empty collection, each ProcessHits of the event leaves the
\* collection as it is or appends its one hit at the end, and nothing else
\* changes the collection during the event; so during event e the
\* collection holds the hits captured since e began, in step order, at most
\* one per step of e, each (in geant4_app) carrying the id of e.
C23_FreshCollectionPerEvent ==
    /\ [](sdInEvent =>
            /\ Len(fHitsCollection) <= sdSteps
            /\ sdApp = "geant4_app" =>
                  \A i \in 1..Len(fHitsCollection) :
                      fHitsCollection[i].eventID = sdEventID)
    /\ [][/\ (~sdInEvent /\ sdInEvent') =>
                (fHitsCollection' = <<>> /\ sdSteps' = 0)
          /\ (sdInEvent /\ sdInEvent') =>
                \/ fHitsCollection' = fHitsCollection
                \/ /\ sdSteps' = sdSteps + 1
                   /\ sdStep'.ret
                   /\ Len(fHitsCollection') = Len(fHitsCollection) + 1
                   /\ SubSeq(fHitsCollection', 1, Len(fHitsCollection))
                          = fHitsCollection
                   /\ fHitsCollection'[Len(fHitsCollection')].edep
                          = sdStep'.edep
          /\ (sdInEvent /\ ~sdInEvent') =>
                fHitsCollection' = fHitsCollection]_vars

C23_Witness ==
    /\ sdApp = "B2a"
    /\ sdInEvent
    /\ sdEventID >= 1
    /\ sdSummary.nHits = 2
    /\ sdSteps = 1
    /\ Len(fHitsCollection) = 1

\* the placements whose mother is the logical volume lv
PlacedIn(lv) == {i \in 1..Len(placements) : placements[i].mother = lv}

\* C24: the chamber placements, all named Chamber_PV under the tracker
\* volume, carry pairwise distinct copy numbers that are exactly 0..N-1; the
\* volume tree has exactly one root, the world, and no logical volume is
\* placed under more than one parent.
C24_ChamberCopyNumbersAndTree ==
    b2aState = "Constructed" =>
        /\ Cardinality(Chambers_PV) = fNbOfChambers
        /\ \A i \in Chambers_PV : placements[i].mother = TrackerLV
        /\ \A i, j \in Chambers_PV :
              placements[i].copyNo = placements[j].copyNo => i = j
        /\ {placements[i].copyNo : i \in Chambers_PV}
               = 0..(fNbOfChambers - 1)
        /\ PlacedIn(0) = {1}
        /\ placements[1].lv = WorldLV
        /\ \A i, j \in 1..Len(placements) :
              placements[i].lv = placements[j].lv => i = j
        /\ \A i \in 2..Len(placements) :
              \E j \in 1..(i - 1) : placements[j].lv = placements[i].mother

C24_Witness ==
    /\ b2aState = "Constructed"
    /\ fNbOfChambers = MaxChambers
    /\ Cardinality(Chambers_PV) = MaxChambers

\* workers that are processing an event
InFlight == {w \in ActiveWorkers : wpc[w] = "inEvent"}

\* the run has ended: every event has been processed, every worker that
\* processed an event has merged, the master has printed the statistics and
\* saved the output
RunDone ==
    /\ ~runActive
    /\ \A w \in ActiveWorkers : wpc[w] = "ended"
    /\ \A e \in 0..(nToProcess - 1) : evLog[e] # NoEdep
    /\ SumWorkers(wNofEvents, nThreads) = nToProcess
    /\ \A w \in ActiveWorkers : wNofEvents[w] > 0 => w \in merged
    /\ fEdep[Master] = SumWorkers(fEdep, nThreads)
    /\ printed # NoStats
    /\ saveCalls[Master] = 1

\* C25: there is no cancellation mid-run: a run that has begun eventually
\* ends with every event processed, the sums of every worker in the
\* master's sums, the statistics printed and the output saved; and every
\* event of the run is processed by exactly one worker: event ids are handed
\* out one by one, no two workers hold the same event and no event that has
\* been processed is handed out again.
C25_RunCompletes ==
    /\ [](/\ nextEvent <= nToProcess
          /\ nextEvent = SumWorkers(wNofEvents, nThreads)
                             + Cardinality(InFlight)
          /\ \A w \in InFlight :
                /\ wEvent[w] < nextEvent
                /\ evLog[wEvent[w]] = NoEdep
                /\ \A v \in InFlight : wEvent[v] = wEvent[w] => v = w
          /\ \A e \in DOMAIN evLog :
                evLog[e] # NoEdep => (e < nextEvent /\ evOwner[e] \in ActiveWorkers))
    /\ (runActive ~> RunDone)

C25_Witness ==
    /\ RunDone
    /\ nThreads = 2
    /\ nToProcess = 2
    /\ evOwner[0] # evOwner[1]
    /\ merged = {0, 1, 2}

\* C26: the per-event deposit does not leak between events:
\* BeginOfEventAction sets EventAction::fEdep to 0, each step of the event
\* adds its deposit, and the value passed to RunAction::AddEdep at
\* EndOfEventAction is the sum of the deposits of the steps reported between
\* that event's begin and end, for any sequence of events on the worker.
C26_NoLeakBetweenEvents ==
    /\ [](sdApp = "geant4_app" =>
            /\ wpc[1] = "inEvent" =>
                  /\ wSteps[1] = 0 => evtEdep[1] = 0
                  /\ evIn[wEvent[1]].kind = "none" => evtEdep[1] = 0
                  /\ evIn[wEvent[1]].kind = "one" =>
                        evtEdep[1] = evIn[wEvent[1]].edep
            /\ \A e \in DOMAIN evLog :
                  (evLog[e] # NoEdep /\ evIn[e].kind \in {"none", "one"}) =>
                      evLog[e] = evIn[e].edep)
    /\ [][sdApp = "geant4_app" =>
            /\ (wpc[1] # "inEvent" /\ wpc'[1] = "inEvent") => evtEdep'[1] = 0
            /\ wSteps'[1] = wSteps[1] + 1 =>
                  evtEdep'[1] = evtEdep[1] + evtStep'.edep
            /\ wNofEvents'[1] = wNofEvents[1] + 1 =>
                  /\ evLog'[wEvent[1]] = evtEdep[1]
                  /\ fEdep'[1] = fEdep[1] + evtEdep[1]]_vars

C26_Witness ==
    /\ sdApp = "geant4_app"
    /\ wEvent[1] = 1
    /\ wpc[1] = "begun"
    /\ evLog[0] = 2 * MaxEvtDep
    /\ evIn[0].kind = "many"
    /\ evIn[1].kind = "one"
    /\ evLog[1] = 1
    /\ fEdep[1] = 2 * MaxEvtDep + 1

\* C27: booking and saving alternate strictly over any sequence of runs:
\* every Book that opens an output file is followed by exactly one Save of
\* that file at the run's end, before the next run begins, also for a run
\* that processed zero events; so between runs fBooked is false and no
\* output file is open, and each run starts from that state.
C27_BookSaveAlternate ==
    /\ [](~runActive => (~fBooked /\ \A t \in Threads : ~amOpen[t]))
    /\ [][/\ runID' = runID + 1 =>
                (~fBooked /\ \A t \in Threads : ~amOpen[t])
          /\ \A t \in Threads :
                (amOpen[t] /\ ~amOpen'[t]) => saveCalls'[t] = 1]_vars

\* C28: at most one Analysis object is ever created and every caller of
\* Instance() obtains it: the object is created once, by the first call, and
\* never replaced; and the output is booked at most once per run: when a
\* Book call opens an output, no other thread's output is open.
C28_OneInstanceOneBooking ==
    [][/\ fInstance => fInstance'
       /\ (~fInstance /\ fInstance') => (runID = 0 /\ runID' = 1)
       /\ \A t \in Threads :
             (~amOpen[t] /\ amOpen'[t]) =>
                 \A u \in Threads \ {t} : ~amOpen'[u]]_vars

\* C29: in exact arithmetic the radicand of the rms is never negative when
\* the event count is the number of accumulated events: after any AddEdep
\* calls and merges of a run of n >= 1 events, n * fEdep2 >= fEdep^2 on the
\* master; the clamp to 0 of EndOfRunAction is taken only when the radicand
\* is exactly 0, which is when all event deposits are equal, and so never
\* hides a positive spread.
C29_RadicandNotNegative ==
    printed # NoStats =>
        LET n   == masterNofEvents
            all == LogFrom(0, 0)
            rad == n * fEdep2[Master] - fEdep[Master] * fEdep[Master]
        IN  /\ n >= 1
            /\ n = Len(all)
            /\ rad >= 0
            /\ printed.rmsSq = <<0, 1>> <=> rad = 0
            /\ rad = 0 <=> \A i, j \in 1..Len(all) : all[i] = all[j]

C29_Witness ==
    /\ printed # NoStats
    /\ masterNofEvents >= 2
    /\ masterNofEvents * fEdep2[Master] > fEdep[Master] * fEdep[Master]
    /\ printed.rmsSq # <<0, 1>>
    /\ merged = {0, 1, 2}

\* the placement of the chamber with copy number c
ChamberOf(c) ==
    placements[CHOOSE i \in Chambers_PV : placements[i].copyNo = c]

====
